---- MODULE Spec2Model ----
(***************************************************************************)
(* A model of the helpers of misc/classtypes.py and misc/decorators.py:    *)
(* the metaclass-based singletons, the immutableobject mixin and the       *)
(* classproperty descriptor.  The utilities share no state, so each has    *)
(* its own specification over its own variables.                           *)
(***************************************************************************)
EXTENDS Integers, Sequences, FiniteSets, TLC

VARIABLES
    \* ---- singletons (classtypes.py 75-127) ----
    instances,  \* _Singleton._instances: dict keyed by inspect.getmro(cls)
    heap,       \* per type, the objects built so far, in order: [x]
    pc,         \* per thread: position inside _Singleton.__call__
    cur,        \* per thread: the call in progress [cls, arg, key]
    tmp,        \* per thread: the object built by type.__call__, not yet stored
    ret,        \* outcome of the last finished operation, with its thread
    firstRet,   \* per thread and type: the instance the first request returned
    firstArg,   \* per type: the argument of the first construction request
    \* ---- immutableobject (classtypes.py 34-72) ----
    attrs,      \* the instance's __dict__: attribute name -> value
    made,       \* how the instance was made: [kind, x, fq], kind "-" before
    frozen,     \* the __dict__ as it was when construction finished
    ilast,      \* the last attribute assignment after construction
    \* ---- classproperty (decorators.py 9-69) ----
    clsDict,    \* per class, its __dict__: name -> value (a number or a descriptor)
    instDict,   \* per instance, its __dict__: name -> value
    writes,     \* the number of attribute assignments made so far
    plast,      \* the last attribute read or assignment and what it did
    \* ---- Dict (classtypes.py 10-30) ----
    dicts,      \* the two Dict objects d1 and d2: key -> value
    dlast,      \* the last += and what it did
    \* ---- classproperty objects by identity (decorators.py 35-69) ----
    descs,      \* the classproperty objects made so far; one's rank is its identity
    klast       \* the last getter(f) / setter(f) call and what it returned

svars == <<instances, heap, pc, cur, tmp, ret, firstRet, firstArg>>

ivars == <<attrs, made, frozen, ilast>>

pvars == <<clsDict, instDict, writes, plast>>

dvars == <<dicts, dlast>>

kvars == <<descs, klast>>

vars == <<svars, ivars, pvars, dvars, kvars>>

\* what the singleton operations leave alone
notSingleton == <<ivars, pvars, dvars, kvars>>

\* what the immutableobject operations leave alone
notImmutable == <<svars, pvars, dvars, kvars>>

\* what the classproperty operations leave alone
notProperty == <<svars, ivars, dvars, kvars>>

\* what the Dict operations leave alone
notDict == <<svars, ivars, pvars, kvars>>

\* what the getter(f) / setter(f) calls leave alone
notChain == <<svars, ivars, pvars, dvars>>

-----------------------------------------------------------------------------
(* Singletons                                                              *)

Threads == {"t1", "t2"}

\* constructor arguments used by the callers (tests: klass(5), klass(12))
Args == {5, 12}

\* constructor arguments on which the subtype's __init__ raises
RaisingArgs == {13}

\* the constructor call made by type.__call__ raises
CtorRaises(a) == a \in RaisingArgs

\* S(Singleton), T(S) and TS(ThreadedSingleton): the user's subtypes
SingletonTypes == {"S", "T", "TS"}

\* inspect.getmro(cls): the class followed by its bases.  The two bases built
\* by _Singleton('SingletonMeta', (object,), {}) are two different classes.
getmro(c) ==
    CASE c = "S"  -> <<"S", "Singleton", "SingletonMeta@Singleton", "object">>
      [] c = "T"  -> <<"T", "S", "Singleton", "SingletonMeta@Singleton", "object">>
      [] c = "TS" -> <<"TS", "ThreadedSingleton", "SingletonMeta@Threaded", "object">>

\* the metaclass of every class derived from the two bases
Metaclass(c) == "_Singleton"

\* names bound in each class body
Namespace(k) ==
    CASE k = "_Singleton"        -> {"_instances", "__call__"}
      [] k = "ThreadedSingleton" -> {"__call__"}
      [] k = "S"                 -> {"__init__"}
      [] k = "TS"                -> {"__init__"}
      [] OTHER                   -> {}

Range(s) == {s[i] : i \in DOMAIN s}

\* attribute lookup on a class object: the classes of its mro, then its metaclass
HasClassAttr(c, name) ==
    \/ \E k \in Range(getmro(c)) : name \in Namespace(k)
    \/ name \in Namespace(Metaclass(c))

\* attribute lookup of a special method on an instance: the mro of its type
HasTypeAttr(c, name) == \E k \in Range(getmro(c)) : name \in Namespace(k)

\* (a fault to detect: the key is the singleton base alone, not the whole chain)
KeyOfBase(c) == <<getmro(c)[Len(getmro(c)) - 1]>>

\* _key = inspect.getmro(cls)
KeyOf(c) == getmro(c)

\* (a fault to detect: the class, not the key, is looked up in the registry)
CachedByClass(key) == <<key[1]>> \in DOMAIN instances

\* _key not in cls._instances (negated)
Cached(key) == key \in DOMAIN instances

\* subtypes of ThreadedSingleton
ThreadedTypes == {c \in SingletonTypes : "ThreadedSingleton" \in Range(getmro(c))}

\* An object is named by its class and its rank among the objects built of that
\* class: two objects are the same object iff the names are equal.  <<>> is None.
NoObject == <<>>
NoCall == [cls |-> "-", arg |-> 0, key |-> <<>>]
NoRet  == [op |-> "none", t |-> "-", cls |-> "-", arg |-> 0, inst |-> NoObject,
           err |-> "None"]


\* thread t evaluates c(a): type(c).__call__ is _Singleton.__call__ for every
\* subtype, ThreadedSingleton's included (its own __call__ is an instance method)
Call(t, c, a) ==
    /\ pc[t] = "idle"
    /\ Metaclass(c) = "_Singleton"
    /\ pc' = [pc EXCEPT ![t] = "check"]
    /\ cur' = [cur EXCEPT ![t] = [cls |-> c, arg |-> a, key |-> KeyOf(c)]]
    /\ firstArg' = IF firstArg[c] = 0 /\ ~CtorRaises(a)
                   THEN [firstArg EXCEPT ![c] = a] ELSE firstArg
    /\ UNCHANGED <<instances, heap, tmp, ret, firstRet>>
    /\ UNCHANGED notSingleton

\* if _key not in cls._instances:
Check(t) ==
    /\ pc[t] = "check"
    /\ pc' = [pc EXCEPT ![t] = IF Cached(cur[t].key) THEN "ret" ELSE "construct"]
    /\ UNCHANGED <<instances, heap, cur, tmp, ret, firstRet, firstArg>>
    /\ UNCHANGED notSingleton

\* super(_Singleton, cls).__call__(*args): a new object, __init__ sets x
Construct(t) ==
    /\ pc[t] = "construct"
    /\ ~CtorRaises(cur[t].arg)
    /\ LET c == cur[t].cls IN
        /\ heap' = [heap EXCEPT ![c] = Append(@, [x |-> cur[t].arg])]
        /\ tmp' = [tmp EXCEPT ![t] = <<c, Len(heap[c]) + 1>>]
    /\ pc' = [pc EXCEPT ![t] = "store"]
    /\ UNCHANGED <<instances, cur, ret, firstRet, firstArg>>
    /\ UNCHANGED notSingleton

\* (a fault to detect: the object whose constructor raised is cached all the same)
ConstructRaisesCached(t) ==
    /\ pc[t] = "construct"
    /\ CtorRaises(cur[t].arg)
    /\ LET c == cur[t].cls IN
        /\ heap' = [heap EXCEPT ![c] = Append(@, [x |-> 0])]
        /\ instances' = (cur[t].key :> <<c, Len(heap[c]) + 1>>) @@ instances
        /\ ret' = [op |-> "call", t |-> t, cls |-> c, arg |-> cur[t].arg,
                   inst |-> NoObject, err |-> "Exception"]
    /\ pc' = [pc EXCEPT ![t] = "idle"]
    /\ cur' = [cur EXCEPT ![t] = NoCall]
    /\ tmp' = [tmp EXCEPT ![t] = NoObject]
    /\ UNCHANGED <<firstRet, firstArg>>
    /\ UNCHANGED notSingleton

\* super(_Singleton, cls).__call__(*args) raises: the exception leaves __call__
\* before the assignment to cls._instances[_key], and the object is dropped
ConstructRaises(t) ==
    /\ pc[t] = "construct"
    /\ CtorRaises(cur[t].arg)
    /\ ret' = [op |-> "call", t |-> t, cls |-> cur[t].cls, arg |-> cur[t].arg,
               inst |-> NoObject, err |-> "Exception"]
    /\ pc' = [pc EXCEPT ![t] = "idle"]
    /\ cur' = [cur EXCEPT ![t] = NoCall]
    /\ tmp' = [tmp EXCEPT ![t] = NoObject]
    /\ UNCHANGED <<instances, heap, firstRet, firstArg>>
    /\ UNCHANGED notSingleton

\* (a fault to detect: the assignment keeps an entry that is already there)
StoreIfAbsent(t) ==
    /\ pc[t] = "store"
    /\ instances' = instances @@ (cur[t].key :> tmp[t])
    /\ pc' = [pc EXCEPT ![t] = "ret"]
    /\ UNCHANGED <<heap, cur, tmp, ret, firstRet, firstArg>>
    /\ UNCHANGED notSingleton

\* cls._instances[_key] = <the new object>
Store(t) ==
    /\ pc[t] = "store"
    /\ instances' = (cur[t].key :> tmp[t]) @@ instances
    /\ pc' = [pc EXCEPT ![t] = "ret"]
    /\ UNCHANGED <<heap, cur, tmp, ret, firstRet, firstArg>>
    /\ UNCHANGED notSingleton

\* return cls._instances[_key]
Return(t) ==
    /\ pc[t] = "ret"
    /\ cur[t].key \in DOMAIN instances
    /\ LET o == instances[cur[t].key]
           c == cur[t].cls IN
        /\ ret' = [op |-> "call", t |-> t, cls |-> c, arg |-> cur[t].arg, inst |-> o,
                   err |-> "None"]
        /\ firstRet' = IF c \in ThreadedTypes /\ firstRet[t][c] = NoObject
                       THEN [firstRet EXCEPT ![t][c] = o] ELSE firstRet
    /\ pc' = [pc EXCEPT ![t] = "idle"]
    /\ cur' = [cur EXCEPT ![t] = NoCall]
    /\ tmp' = [tmp EXCEPT ![t] = NoObject]
    /\ UNCHANGED <<instances, heap, firstArg>>
    /\ UNCHANGED notSingleton

\* c.new(a): no class of the mro and no metaclass binds "new"
New(t, c, a) ==
    /\ pc[t] = "idle"
    /\ ~HasClassAttr(c, "new")
    /\ ret' = [op |-> "new", t |-> t, cls |-> c, arg |-> a, inst |-> NoObject,
               err |-> "AttributeError"]
    /\ UNCHANGED <<instances, heap, pc, cur, tmp, firstRet, firstArg>>
    /\ UNCHANGED notSingleton

\* c.delete(): no class of the mro and no metaclass binds "delete"
Delete(t, c) ==
    /\ pc[t] = "idle"
    /\ ~HasClassAttr(c, "delete")
    /\ ret' = [op |-> "delete", t |-> t, cls |-> c, arg |-> 0, inst |-> NoObject,
               err |-> "AttributeError"]
    /\ UNCHANGED <<instances, heap, pc, cur, tmp, firstRet, firstArg>>
    /\ UNCHANGED notSingleton

\* the objects built so far
Objects == UNION {{<<c, n>> : n \in DOMAIN heap[c]} : c \in SingletonTypes}

\* o() on an instance: ThreadedSingleton.__call__(o) runs with cls bound to the
\* instance and inspect.getmro(o) fails; other instances are not callable
InstanceCall(t, o) ==
    /\ pc[t] = "idle"
    /\ o \in Objects
    /\ ret' = [op |-> "icall", t |-> t, cls |-> o[1], arg |-> 0, inst |-> o,
               err |-> IF HasTypeAttr(o[1], "__call__")
                       THEN "AttributeError" ELSE "TypeError"]
    /\ UNCHANGED <<instances, heap, pc, cur, tmp, firstRet, firstArg>>
    /\ UNCHANGED notSingleton

AllIdle == \A t \in Threads : pc[t] = "idle"

\* calls issued one after the other, from any thread
SeqNext ==
    \/ \E t \in Threads, c \in SingletonTypes, a \in Args \cup RaisingArgs :
           AllIdle /\ Call(t, c, a)
    \/ \E t \in Threads : Check(t)
    \/ \E t \in Threads : Construct(t)
    \/ \E t \in Threads : ConstructRaises(t)
    \/ \E t \in Threads : Store(t)
    \/ \E t \in Threads : Return(t)
    \/ \E t \in Threads, c \in SingletonTypes, a \in Args : AllIdle /\ New(t, c, a)
    \/ \E t \in Threads, c \in SingletonTypes : AllIdle /\ Delete(t, c)
    \/ \E t \in Threads : \E o \in Objects : AllIdle /\ InstanceCall(t, o)

\* the types the interleaved calls are issued for
RaceTypes == {"S", "TS"}

\* calls of different threads interleaved statement by statement
RaceNext ==
    \/ \E t \in Threads, c \in RaceTypes, a \in Args : Call(t, c, a)
    \/ \E t \in Threads : Check(t)
    \/ \E t \in Threads : Construct(t)
    \/ \E t \in Threads : Store(t)
    \/ \E t \in Threads : Return(t)

-----------------------------------------------------------------------------
(* immutableobject                                                         *)

\* values assigned to attributes; False is 0 and True is 1, as in Python
Values == {0, 1, 5, 12, 15}

\* constructor arguments x of the subtypes (tests: Foo(5), Bar(5))
XArgs == {5, 12, 15}

\* the name-mangled __initialized of class immutableobject
InitializedName == "_immutableobject__initialized"

AttrNames == {"x", "y", "_fail_quietly", InitializedName}

\* the subtypes of the tests: Foo(x, fail_quietly=True) and Bar(x), which
\* passes fail_quietly=False on
ImmutableKinds == {"Foo", "Bar"}

\* bool(v)
Truthy(v) == v # 0

\* self.__initialized: the instance's attribute, else the class attribute False
Initialized(d) == IF InitializedName \in DOMAIN d THEN d[InitializedName] ELSE 0

\* str(self.__class__).split('.')[-1][:-2]
ClassName(kind) == kind

\* (a fault to detect: the assignment is made whatever the state of the object)
SetAttrAlways(d, kind, key, value) ==
    [d |-> (key :> value) @@ d, err |-> "None", msg |-> <<>>]

\* (a fault to detect: the assignment is ignored, never reported)
SetAttrNeverRaises(d, kind, key, value) ==
    IF ~Truthy(Initialized(d))
    THEN [d |-> (key :> value) @@ d, err |-> "None", msg |-> <<>>]
    ELSE [d |-> d, err |-> "None", msg |-> <<>>]

\* (a fault to detect: the object's own two flags are exempt from the freeze)
SetAttrFlagsWritable(d, kind, key, value) ==
    IF ~Truthy(Initialized(d)) \/ key \in {"_fail_quietly", InitializedName}
    THEN [d |-> (key :> value) @@ d, err |-> "None", msg |-> <<>>]
    ELSE IF ~Truthy(d["_fail_quietly"])
    THEN [d |-> d, err |-> "TypeError",
          msg |-> <<ClassName(kind), " object does not support item assignment">>]
    ELSE [d |-> d, err |-> "None", msg |-> <<>>]

\* immutableobject.__setattr__(self, key, value) on an instance of class kind
\* with __dict__ d: the new __dict__ and the exception raised, if any
SetAttr(d, kind, key, value) ==
    IF ~Truthy(Initialized(d))
    THEN [d |-> (key :> value) @@ d, err |-> "None", msg |-> <<>>]
    ELSE IF "_fail_quietly" \notin DOMAIN d
    THEN [d |-> d, err |-> "AttributeError", msg |-> <<>>]
    ELSE IF ~Truthy(d["_fail_quietly"])
    THEN [d |-> d, err |-> "TypeError",
          msg |-> <<ClassName(kind), " object does not support item assignment">>]
    ELSE [d |-> d, err |-> "None", msg |-> <<>>]

\* immutableobject.__init__(self, fail_quietly) on __dict__ d
BaseInit(d, kind, fq) ==
    LET r1 == SetAttr(d, kind, "_fail_quietly", fq) IN
    IF r1.err # "None" THEN r1
    ELSE SetAttr(r1.d, kind, InitializedName, 1)

\* Foo.__init__(self, x, fail_quietly): self.x = x, then the base constructor
FooInit(d, kind, x, fq) ==
    LET r1 == SetAttr(d, kind, "x", x) IN
    IF r1.err # "None" THEN r1
    ELSE BaseInit(r1.d, kind, fq)

NotMade == [kind |-> "-", x |-> 0, fq |-> 0]
NoSet   == [key |-> "-", value |-> 0, err |-> "None", msg |-> <<>>]


\* foo = Foo(x, fail_quietly=fq) or foo = Bar(x)
IConstruct(kind, x, fq) ==
    /\ kind = "Bar" => fq = 0
    /\ LET r == FooInit(<<>>, kind, x, fq) IN
        /\ r.err = "None"
        /\ attrs' = r.d
        /\ frozen' = r.d
    /\ made' = [kind |-> kind, x |-> x, fq |-> fq]
    /\ ilast' = NoSet
    /\ UNCHANGED notImmutable

\* foo.key = value, after construction
ISet(key, value) ==
    /\ made.kind # "-"
    /\ LET r == SetAttr(attrs, made.kind, key, value) IN
        /\ attrs' = r.d
        /\ ilast' = [key |-> key, value |-> value, err |-> r.err, msg |-> r.msg]
    /\ UNCHANGED <<made, frozen>>
    /\ UNCHANGED notImmutable

INext ==
    \/ \E kind \in ImmutableKinds, x \in XArgs, fq \in {0, 1} : IConstruct(kind, x, fq)
    \/ \E key \in AttrNames, value \in Values : ISet(key, value)

-----------------------------------------------------------------------------
(* classproperty                                                           *)

\* the most attribute assignments explored
MaxWrites == 2

\* values written through the properties (tests: klass.x = 5)
PValues == {5, 12}

\* Example of the tests and Foo(Example), which overrides nothing; one
\* instance of each
PClasses == {"Example", "Foo"}
PInstances == {"e", "f"}

TypeOf(i) == IF i = "e" THEN "Example" ELSE "Foo"

\* the classes of a class's mro that have a __dict__ of their own
pmro(c) == IF c = "Example" THEN <<"Example">> ELSE <<"Foo", "Example">>

\* the class properties of Example and the attribute behind each: x and y of
\* the tests, ro = classproperty(getx) without a setter and
\* wo = classproperty(fset=setx) without a getter
PropNames == {"x", "y", "ro", "wo"}
BackingOf(n) == IF n = "y" THEN "_y" ELSE "_x"

\* the properties constructed with a getter, and those constructed with a setter
WithGetter == {"x", "y", "ro"}
WithSetter == {"x", "y", "wo"}

\* a callable as given to classproperty: a plain function, or a function wrapped
\* by classmethod or staticmethod; f = "None" with wrap = "plain" is None
Fn(wrap, f) == [wrap |-> wrap, f |-> f]
NoneFn == Fn("plain", "None")

\* isinstance(f, (classmethod, staticmethod))
is_class_method(f) == f.wrap \in {"classmethod", "staticmethod"}

\* classmethod(f)
classmethod(f) == Fn("classmethod", f.f)

\* values held in a __dict__
Num(n) == [kind |-> "int", v |-> n, fget |-> NoneFn, fset |-> NoneFn]
Prop(fget, fset) == [kind |-> "prop", v |-> 0, fget |-> fget, fset |-> fset]

\* classproperty.__init__(self, fget, fset)
classproperty(fget, fset) ==
    Prop(IF is_class_method(fget) THEN fget ELSE classmethod(fget),
         IF is_class_method(fset) THEN fset ELSE classmethod(fset))

\* (a fault to detect: setter(func) rebuilds the descriptor from func alone)
setterDropsGetter(p, func) == classproperty(NoneFn, func)

\* classproperty.setter(self, func): the same descriptor with fset replaced
setter(p, func) ==
    [p EXCEPT !.fset = IF is_class_method(func) THEN func ELSE classmethod(func)]

\* classproperty.getter(self, func): the same descriptor with fget replaced
getter(p, func) ==
    [p EXCEPT !.fget = IF is_class_method(func) THEN func ELSE classmethod(func)]

\* the first class of c's mro whose __dict__ binds name, "-" when none does
Owner(cd, c, name) ==
    LET m == pmro(c)
        hits == {k \in DOMAIN m : name \in DOMAIN cd[m[k]]} IN
    IF hits = {} THEN "-"
    ELSE m[CHOOSE k \in hits : \A h \in hits : k <= h]

\* the getters of the tests: return cls._x / return cls._y
RunGetter(cd, f, klass) ==
    LET b == IF f = "getx" THEN "_x" ELSE "_y"
        o == Owner(cd, klass, b) IN
    IF o = "-"
    THEN [result |-> 0, err |-> "AttributeError", called |-> <<f, klass>>]
    ELSE [result |-> cd[o][b].v, err |-> "None", called |-> <<f, klass>>]

\* (a fault to detect: the getter is bound to the class that defines the
\* property, not to the class the property is read through)
DescGetDefiningClass(cd, p, obj, klass) ==
    RunGetter(cd, p.fget.f, "Example")

\* classproperty.__get__(self, obj, klass): self.fget.__get__(obj, klass)()
DescGet(cd, p, obj, klass) ==
    IF p.fget.f = "None" /\ p.fget.wrap = "plain"
    THEN [result |-> 0, err |-> "AttributeError", called |-> <<>>]
    ELSE IF p.fget.f = "None" \/ p.fget.wrap = "staticmethod"
    THEN [result |-> 0, err |-> "TypeError", called |-> <<>>]
    ELSE RunGetter(cd, p.fget.f, klass)

\* c.name read on a class: type.__getattribute__
ClassGet(cd, c, name) ==
    LET o == Owner(cd, c, name) IN
    IF o = "-" THEN [result |-> 0, err |-> "AttributeError", called |-> <<>>]
    ELSE IF cd[o][name].kind = "prop" THEN DescGet(cd, cd[o][name], "None", c)
    ELSE [result |-> cd[o][name].v, err |-> "None", called |-> <<>>]

\* i.name read on an instance: object.__getattribute__ (a classproperty defines
\* __set__, so it comes before the instance's own __dict__)
InstGet(cd, idict, i, name) ==
    LET c == TypeOf(i)
        o == Owner(cd, c, name) IN
    IF o # "-" /\ cd[o][name].kind = "prop" THEN DescGet(cd, cd[o][name], i, c)
    ELSE IF name \in DOMAIN idict[i]
    THEN [result |-> idict[i][name], err |-> "None", called |-> <<>>]
    ELSE IF o # "-" THEN [result |-> cd[o][name].v, err |-> "None", called |-> <<>>]
    ELSE [result |-> 0, err |-> "AttributeError", called |-> <<>>]

\* the setters of the tests: cls._x = value / cls._y = value
RunSetter(cd, f, klass, value) ==
    LET b == IF f = "setx" THEN "_x" ELSE "_y" IN
    [cd |-> [cd EXCEPT ![klass] = (b :> Num(value)) @@ @], err |-> "None",
     called |-> <<f, klass, value>>]

\* classproperty.__set__(self, obj, value), obj an instance
DescSet(cd, p, obj, value) ==
    IF p.fset.f = "None" /\ p.fset.wrap = "plain"
    THEN [cd |-> cd, err |-> "AttributeError", called |-> <<>>]
    ELSE IF p.fset.f = "None" \/ p.fset.wrap = "staticmethod"
    THEN [cd |-> cd, err |-> "TypeError", called |-> <<>>]
    ELSE RunSetter(cd, p.fset.f, TypeOf(obj), value)

NoOp == [op |-> "none", target |-> "-", name |-> "-", value |-> 0, prop |-> FALSE,
         result |-> 0, err |-> "None", called |-> <<>>]


\* name resolves to a classproperty when looked up from class c
IsProp(cd, c, name) ==
    LET o == Owner(cd, c, name) IN o # "-" /\ cd[o][name].kind = "prop"

\* c.name
PClassRead(c, name) ==
    /\ LET r == ClassGet(clsDict, c, name) IN
        plast' = [op |-> "cread", target |-> c, name |-> name, value |-> 0,
                  prop |-> IsProp(clsDict, c, name),
                  result |-> r.result, err |-> r.err, called |-> r.called]
    /\ UNCHANGED <<clsDict, instDict, writes>>
    /\ UNCHANGED notProperty

\* i.name
PInstRead(i, name) ==
    /\ LET r == InstGet(clsDict, instDict, i, name) IN
        plast' = [op |-> "iread", target |-> i, name |-> name, value |-> 0,
                  prop |-> IsProp(clsDict, TypeOf(i), name),
                  result |-> r.result, err |-> r.err, called |-> r.called]
    /\ UNCHANGED <<clsDict, instDict, writes>>
    /\ UNCHANGED notProperty

\* c.name = value: type.__setattr__ finds no data descriptor on the metaclass
\* and binds name in c's own __dict__
PClassWrite(c, name, value) ==
    /\ writes < MaxWrites
    /\ writes' = writes + 1
    /\ clsDict' = [clsDict EXCEPT ![c] = (name :> Num(value)) @@ @]
    /\ plast' = [op |-> "cwrite", target |-> c, name |-> name, value |-> value,
                 prop |-> IsProp(clsDict, c, name),
                 result |-> 0, err |-> "None", called |-> <<>>]
    /\ UNCHANGED instDict
    /\ UNCHANGED notProperty

\* i.name = value: object.__setattr__ calls __set__ of a data descriptor found
\* on the type, else binds name in the instance's __dict__
PInstWrite(i, name, value) ==
    /\ writes < MaxWrites
    /\ writes' = writes + 1
    /\ LET c == TypeOf(i)
           o == Owner(clsDict, c, name) IN
        IF o # "-" /\ clsDict[o][name].kind = "prop"
        THEN LET r == DescSet(clsDict, clsDict[o][name], i, value) IN
             /\ clsDict' = r.cd
             /\ instDict' = instDict
             /\ plast' = [op |-> "iwrite", target |-> i, name |-> name,
                          value |-> value, prop |-> TRUE,
                          result |-> 0, err |-> r.err, called |-> r.called]
        ELSE /\ clsDict' = clsDict
             /\ instDict' = [instDict EXCEPT ![i] = (name :> value) @@ @]
             /\ plast' = [op |-> "iwrite", target |-> i, name |-> name,
                          value |-> value, prop |-> FALSE,
                          result |-> 0, err |-> "None", called |-> <<>>]
    /\ UNCHANGED notProperty

PNext ==
    \/ \E c \in PClasses, n \in PropNames : PClassRead(c, n)
    \/ \E i \in PInstances, n \in PropNames : PInstRead(i, n)
    \/ \E c \in PClasses, n \in PropNames, v \in PValues : PClassWrite(c, n, v)
    \/ \E i \in PInstances, n \in PropNames, v \in PValues : PInstWrite(i, n, v)

-----------------------------------------------------------------------------
(* Dict                                                                    *)

\* the two mappings of the tests
DictNames == {"d1", "d2"}

\* keys and values of the entries (tests: one=1, two=2, three=3, four=4)
DictKeys == {"one", "two", "three"}
DictVals == {1, 2}

\* every content a Dict can have
Contents == UNION {[ks -> DictVals] : ks \in SUBSET DictKeys}

\* right-hand operands that are not dicts: an object with an items() method
\* that is no dict (a mapping proxy, say), and an object without one (5, a list)
NonDicts ==
    {[kind |-> "mapping", ref |-> "-", items |-> m] :
        m \in {("one" :> 2), ("two" :> 1) @@ ("three" :> 2)}}
    \cup {[kind |-> "object", ref |-> "-", items |-> <<>>]}

\* isinstance(other, dict)
IsDict(other) == other.kind = "dict"

\* other has an items attribute
HasItems(other) == other.kind \in {"dict", "mapping"}

\* (a fault to detect: an entry already present is kept, the left side wins)
SetItemsKeepLeft(d, src, keys) == [k \in DOMAIN d \cup keys |->
                                     IF k \in DOMAIN d THEN d[k] ELSE src[k]]

\* for key, val in other.items(): self[key] = val
RECURSIVE SetItems(_, _, _)
SetItems(d, src, keys) ==
    IF keys = {} THEN d
    ELSE LET k == CHOOSE k \in keys : TRUE IN
         SetItems((k :> src[k]) @@ d, src, keys \ {k})

\* (a fault to detect: the type check rejects what is not a dict)
iaddChecked(d, other) ==
    IF ~IsDict(other) THEN [d |-> d, err |-> "TypeError"]
    ELSE [d |-> SetItems(d, other.items, DOMAIN other.items), err |-> "None"]

\* Dict.__iadd__(self, other) on content d: the isinstance test only passes;
\* other.items() fails when other has no such attribute
iadd(d, other) ==
    IF ~HasItems(other) THEN [d |-> d, err |-> "AttributeError"]
    ELSE [d |-> SetItems(d, other.items, DOMAIN other.items), err |-> "None"]

NoAdd == [op |-> "none", self |-> "-", kind |-> "-", ref |-> "-", pre |-> <<>>,
          items |-> <<>>, result |-> "-", err |-> "None"]

\* n = Dict(**content)
DNew(n, content) ==
    /\ dicts' = [dicts EXCEPT ![n] = content]
    /\ dlast' = NoAdd
    /\ UNCHANGED notDict

\* a += other, other being d1, d2 or something that is not a dict
DIAdd(a, other) ==
    /\ LET r == iadd(dicts[a], other) IN
        /\ dicts' = [dicts EXCEPT ![a] = r.d]
        /\ dlast' = [op |-> "iadd", self |-> a, kind |-> other.kind,
                     ref |-> other.ref, pre |-> dicts[a], items |-> other.items,
                     result |-> IF r.err = "None" THEN a ELSE "-", err |-> r.err]
    /\ UNCHANGED notDict

DNext ==
    \/ \E n \in DictNames, content \in Contents : DNew(n, content)
    \/ \E a \in DictNames, b \in DictNames :
          DIAdd(a, [kind |-> "dict", ref |-> b, items |-> dicts[b]])
    \/ \E a \in DictNames, o \in NonDicts : DIAdd(a, o)

-----------------------------------------------------------------------------
(* classproperty: the chaining calls                                       *)

\* the most classproperty objects made
MaxDescs == 2

\* the callables handed to classproperty(...), getter(...) and setter(...)
Funcs == {Fn(w, f) : w \in {"plain", "classmethod"}, f \in {"getx", "setx"}}
         \cup {NoneFn}

NoChain == [op |-> "none", self |-> 0, func |-> NoneFn, pre |-> Prop(NoneFn, NoneFn),
            result |-> 0]

\* p = classproperty(fget, fset)
KNew(fget, fset) ==
    /\ Len(descs) < MaxDescs
    /\ descs' = Append(descs, classproperty(fget, fset))
    /\ klast' = NoChain
    /\ UNCHANGED notChain

\* p.getter(func): self.fget = ...; return self
KGetter(p, func) ==
    /\ p \in DOMAIN descs
    /\ descs' = [descs EXCEPT ![p] = getter(@, func)]
    /\ klast' = [op |-> "getter", self |-> p, func |-> func, pre |-> descs[p],
                 result |-> p]
    /\ UNCHANGED notChain

\* p.setter(func): self.fset = ...; return self
KSetter(p, func) ==
    /\ p \in DOMAIN descs
    /\ descs' = [descs EXCEPT ![p] = setter(@, func)]
    /\ klast' = [op |-> "setter", self |-> p, func |-> func, pre |-> descs[p],
                 result |-> p]
    /\ UNCHANGED notChain

KNext ==
    \/ \E fget \in Funcs, fset \in Funcs : KNew(fget, fset)
    \/ \E p \in 1..MaxDescs, func \in Funcs : KGetter(p, func)
    \/ \E p \in 1..MaxDescs, func \in Funcs : KSetter(p, func)

\* The state before any operation: an empty registry, no immutableobject
\* instance yet, and the classes of the classproperty tests as their class
\* statements leave them.
Init ==
    /\ instances = <<>>
    /\ heap = [c \in SingletonTypes |-> <<>>]
    /\ pc = [t \in Threads |-> "idle"]
    /\ cur = [t \in Threads |-> NoCall]
    /\ tmp = [t \in Threads |-> NoObject]
    /\ ret = NoRet
    /\ firstRet = [t \in Threads |-> [c \in ThreadedTypes |-> NoObject]]
    /\ firstArg = [c \in SingletonTypes |-> 0]
    /\ attrs = <<>>
    /\ made = NotMade
    /\ frozen = <<>>
    /\ ilast = NoSet
    /\ clsDict =
         [c \in PClasses |->
            IF c = "Example"
            THEN ("_x" :> Num(0)) @@ ("_y" :> Num(0))
                 @@ ("x" :> setter(classproperty(Fn("plain", "getx"), NoneFn),
                                   Fn("plain", "setx")))
                 @@ ("y" :> classproperty(Fn("classmethod", "get_y"),
                                          Fn("classmethod", "set_y")))
                 @@ ("ro" :> classproperty(Fn("plain", "getx"), NoneFn))
                 @@ ("wo" :> classproperty(NoneFn, Fn("plain", "setx")))
            ELSE <<>>]
    /\ instDict = [i \in PInstances |-> <<>>]
    /\ writes = 0
    /\ plast = NoOp
    /\ dicts = [n \in DictNames |-> <<>>]
    /\ dlast = NoAdd
    /\ descs = <<>>
    /\ klast = NoChain

SpecSeq == Init /\ [][SeqNext]_vars

SpecRace == Init /\ [][RaceNext]_vars

SpecImmutable == Init /\ [][INext]_vars

SpecProperty == Init /\ [][PNext]_vars

SpecDict == Init /\ [][DNext]_vars

SpecChain == Init /\ [][KNext]_vars

Spec == SpecSeq

-----------------------------------------------------------------------------
(* Properties of the singletons                                            *)

\* the registry entry of type c, NoObject when there is none
EntryOf(c) == IF KeyOf(c) \in DOMAIN instances THEN instances[KeyOf(c)] ELSE NoObject

\* a construction request for c whose constructor did not raise has been
\* issued and no request for c is in progress
Requested(c) ==
    /\ firstArg[c] # 0
    /\ \A t \in Threads : cur[t].cls # c

\* C1: construction calls issued one after the other for a process-wide
\* singleton type all return the one instance the first call built, and that
\* instance keeps the first call's argument: later arguments are ignored.
\* (A call whose constructor raised returns nothing and is not one of these.)
C1_RepeatCallReturnsFirst ==
    (ret.op = "call" /\ (~CtorRaises(ret.arg) \/ ret.inst # NoObject)) =>
        /\ ret.err = "None"
        /\ ret.inst = <<ret.cls, 1>>
        /\ Len(heap[ret.cls]) = 1
        /\ heap[ret.cls][1].x = firstArg[ret.cls]

\* a later call with another argument returned the instance built from 5
C1_Witness ==
    /\ ret.op = "call" /\ ret.cls = "S" /\ ret.arg = 12
    /\ firstArg["S"] = 5
    /\ ret.inst = <<"S", 1>> /\ heap["S"][1].x = 5

\* C2: S.new(a) discards the cached instance, builds a fresh one from a,
\* caches it and returns it, leaving exactly one entry for S.
C2_NewReplaces ==
    ret.op = "new" =>
        /\ ret.err = "None"
        /\ ret.inst # NoObject
        /\ EntryOf(ret.cls) = ret.inst
        /\ heap[ret.cls][ret.inst[2]].x = ret.arg

\* C3: S.delete() leaves the registry without an entry for S and raises no
\* error, whether or not an instance was cached.
C3_DeleteRemoves ==
    ret.op = "delete" =>
        /\ ret.err = "None"
        /\ EntryOf(ret.cls) = NoObject

\* the state part of C4: every requested type has its own entry, holding an
\* instance of that very type, and the registry has no other entries
C4_OwnEntries ==
    /\ \A c \in SingletonTypes : Requested(c) =>
          /\ EntryOf(c) # NoObject
          /\ EntryOf(c)[1] = c
    /\ \A c, d \in SingletonTypes :
          (c # d /\ EntryOf(c) # NoObject /\ EntryOf(d) # NoObject) =>
              EntryOf(c) # EntryOf(d)
    /\ AllIdle =>
          Cardinality(DOMAIN instances) =
              Cardinality({c \in SingletonTypes : Requested(c)})

\* the step part of C4: the entry of a type changes only in a call for that type
C4_Frame ==
    \A d \in SingletonTypes :
        EntryOf(d)' # EntryOf(d) => \E t \in Threads : cur[t].cls = d

\* C4: distinct singleton types never collide: each type constructed has its own
\* registry entry with its own instance, the registry has exactly one entry per
\* type constructed, and a construction call for one type never changes the
\* cached instance of another (a subclass of a singleton type included).
C4_TypesDoNotCollide == []C4_OwnEntries /\ [][C4_Frame]_vars

\* S, its subclass T and TS are all cached, under three entries
C4_Witness ==
    /\ AllIdle
    /\ EntryOf("S") = <<"S", 1>> /\ EntryOf("T") = <<"T", 1>>
    /\ EntryOf("TS") = <<"TS", 1>>
    /\ Cardinality(DOMAIN instances) = 3

\* C5: two different threads constructing the same ThreadedSingleton subtype
\* get two distinct instances.
C5_ThreadsIsolated ==
    \A c \in ThreadedTypes : \A t1, t2 \in Threads :
        (t1 # t2 /\ firstRet[t1][c] # NoObject /\ firstRet[t2][c] # NoObject)
            => firstRet[t1][c] # firstRet[t2][c]

\* C6: every construction request a thread issues for a ThreadedSingleton
\* subtype returns the instance that thread's first request returned, whatever
\* other threads construct in between.
C6_ThreadStable ==
    (ret.op = "call" /\ ret.cls \in ThreadedTypes) =>
        ret.inst = firstRet[ret.t][ret.cls]

-----------------------------------------------------------------------------
(* Properties of immutableobject                                           *)

\* C7: on an instance constructed with fail_quietly true, an assignment to any
\* attribute after construction raises nothing and leaves every attribute with
\* the value it had when construction finished.
C7_QuietSetIsNoOp ==
    (made.kind # "-" /\ Truthy(made.fq)) =>
        /\ ilast.err = "None"
        /\ attrs = frozen
        /\ attrs["x"] = made.x

\* Foo(5), then foo.x = 12: x still reads 5
C7_Witness ==
    /\ made = [kind |-> "Foo", x |-> 5, fq |-> 1]
    /\ ilast.key = "x" /\ ilast.value = 12 /\ ilast.err = "None"
    /\ attrs["x"] = 5

\* C8: on an instance constructed with fail_quietly false, every assignment
\* after construction raises TypeError and leaves the attributes as they were.
C8_LoudSetRaises ==
    (made.kind # "-" /\ ~Truthy(made.fq) /\ ilast.key # "-") =>
        /\ ilast.err = "TypeError"
        /\ attrs = frozen
        /\ attrs["x"] = made.x

\* Bar(5), then b.x = 15: TypeError, x still reads 5
C8_Witness ==
    /\ made = [kind |-> "Bar", x |-> 5, fq |-> 0]
    /\ ilast.key = "x" /\ ilast.value = 15 /\ ilast.err = "TypeError"
    /\ ilast.msg[1] = "Bar"
    /\ attrs["x"] = 5

-----------------------------------------------------------------------------
(* Properties of classproperty                                             *)

\* the value of the attribute behind property n, as class c sees it
Backing(c, n) == clsDict[Owner(clsDict, c, BackingOf(n))][BackingOf(n)].v

\* the setter configured for property n of the tests
SetterOf(n) == IF n = "y" THEN "set_y" ELSE "setx"
GetterOf(n) == IF n = "y" THEN "get_y" ELSE "getx"

\* C9: writing v to a class property through the class (C.x = v) calls the
\* setter with the class and v; afterwards the backing value is v and reads of
\* the property through the class and through an instance return it.
C9_ClassWriteCallsSetter ==
    (plast.op = "cwrite" /\ plast.prop /\ plast.name \in WithGetter \cap WithSetter) =>
        /\ plast.called = <<SetterOf(plast.name), plast.target, plast.value>>
        /\ Backing(plast.target, plast.name) = plast.value
        /\ ClassGet(clsDict, plast.target, plast.name).result
              = Backing(plast.target, plast.name)
        /\ \A i \in PInstances : TypeOf(i) = plast.target =>
              InstGet(clsDict, instDict, i, plast.name).result
                  = Backing(plast.target, plast.name)

\* C10: reading a class property whose getter is configured, through the class
\* or through an instance, calls the getter with the class read through (the
\* instance's class) and returns that class's current backing value, whether
\* the getter was given as a plain function or as a classmethod.
C10_ReadCallsGetter ==
    (plast.op \in {"cread", "iread"} /\ plast.prop /\ plast.name \in WithGetter) =>
        LET klass == IF plast.op = "cread" THEN plast.target
                     ELSE TypeOf(plast.target) IN
        /\ plast.err = "None"
        /\ plast.called = <<GetterOf(plast.name), klass>>
        /\ plast.result = Backing(klass, plast.name)

\* f.x = 12 went to Foo's backing value; Foo.x then reads 12, Example's is 0
C10_Witness ==
    /\ plast.op = "cread" /\ plast.target = "Foo" /\ plast.name = "x"
    /\ plast.prop /\ plast.result = 12
    /\ Backing("Example", "x") = 0
    /\ plast.called = <<"getx", "Foo">>

\* C11: writing to a class property constructed without a setter raises
\* AttributeError ("can't set attribute") and changes nothing: the name still
\* resolves to the property afterwards.
C11_NoSetterWriteRaises ==
    (plast.op \in {"cwrite", "iwrite"} /\ plast.prop /\ plast.name \notin WithSetter) =>
        LET klass == IF plast.op = "cwrite" THEN plast.target
                     ELSE TypeOf(plast.target) IN
        /\ plast.err = "AttributeError"
        /\ plast.called = <<>>
        /\ IsProp(clsDict, klass, plast.name)

\* C12: reading a class property constructed without a getter raises
\* AttributeError ('unreadable attribute').
C12_NoGetterReadRaises ==
    (plast.op \in {"cread", "iread"} /\ plast.prop /\ plast.name \notin WithGetter) =>
        /\ plast.err = "AttributeError"
        /\ plast.called = <<>>

\* the state part of C13: a read of an inherited property through the subclass
\* Foo or its instance calls the getter with Foo and returns Foo's backing value
C13_SubclassRead ==
    (/\ plast.op \in {"cread", "iread"} /\ plast.prop
     /\ plast.name \in WithGetter \cap WithSetter
     /\ plast.target \in {"Foo", "f"}) =>
        /\ plast.err = "None"
        /\ plast.called = <<GetterOf(plast.name), "Foo">>
        /\ plast.result = Backing("Foo", plast.name)

\* the step part of C13: a write of v to an inherited property through Foo or
\* its instance makes v the backing value Foo sees and leaves Example's as it was
C13_SubclassWrite ==
    \A n \in WithGetter \cap WithSetter :
        (/\ plast'.op \in {"cwrite", "iwrite"} /\ plast'.name = n
         /\ plast'.target \in {"Foo", "f"}
         /\ writes' = writes + 1
         /\ IsProp(clsDict, "Foo", n)) =>
            /\ Backing("Foo", n)' = plast'.value
            /\ Backing("Example", n)' = Backing("Example", n)

\* C13: a subclass that does not override a class property gets the same
\* behaviour against its own backing state: reads through the subclass call
\* the getter with the subclass, and a write through the subclass or through
\* its instance changes the backing value the subclass sees, not the base's.
C13_SubclassOwnState == []C13_SubclassRead /\ [][C13_SubclassWrite]_vars

-----------------------------------------------------------------------------
(* Properties of Dict                                                      *)

\* C14: after A += B for two Dicts, every key of B maps to B's value, every
\* other key of A keeps its value, A has no further keys, B is unchanged and
\* the operation returns A itself.
C14_RightWinsMerge ==
    (dlast.op = "iadd" /\ dlast.kind = "dict") =>
        LET A == dicts[dlast.self]
            B == dlast.items IN
        /\ dlast.err = "None"
        /\ \A k \in DOMAIN B : A[k] = B[k]
        /\ \A k \in DOMAIN dlast.pre \ DOMAIN B : A[k] = dlast.pre[k]
        /\ DOMAIN A = DOMAIN dlast.pre \cup DOMAIN B
        /\ dicts[dlast.ref] = B
        /\ dlast.result = dlast.self

\* d1 and d2 collide on "one": d2's value wins, d1 keeps its own "two"
C14_Witness ==
    /\ dlast.op = "iadd" /\ dlast.kind = "dict"
    /\ dlast.self = "d1" /\ dlast.ref = "d2"
    /\ dlast.pre = ("one" :> 1) @@ ("two" :> 2)
    /\ dlast.items = ("one" :> 2) @@ ("three" :> 1)
    /\ dicts["d1"] = ("one" :> 2) @@ ("two" :> 2) @@ ("three" :> 1)

\* C19 as stated: += with an operand that is not a dict raises no error and
\* the call completes.
C19_NonDictNoError ==
    (dlast.op = "iadd" /\ dlast.kind # "dict") =>
        /\ dlast.err = "None"
        /\ dlast.result = dlast.self

\* C19 as amended: the type check never raises; an operand that is not a dict
\* but has items() is merged like a dict, and an operand without items() makes
\* the call raise AttributeError, the mapping left as it was.
C19_NonDictNotRejected ==
    (dlast.op = "iadd" /\ dlast.kind # "dict") =>
        LET A == dicts[dlast.self] IN
        /\ dlast.err # "TypeError"
        /\ dlast.kind = "mapping" =>
              /\ dlast.err = "None"
              /\ dlast.result = dlast.self
              /\ \A k \in DOMAIN dlast.items : A[k] = dlast.items[k]
              /\ DOMAIN A = DOMAIN dlast.pre \cup DOMAIN dlast.items
        /\ dlast.kind = "object" =>
              /\ dlast.err = "AttributeError"
              /\ A = dlast.pre

\* a mapping that is no dict was merged into d1, over d1's own "one"
C19_Witness ==
    /\ dlast.op = "iadd" /\ dlast.kind = "mapping" /\ dlast.err = "None"
    /\ dlast.self = "d1"
    /\ dlast.pre = ("one" :> 1)
    /\ dicts["d1"] = ("one" :> 2)

-----------------------------------------------------------------------------
(* Properties of the chaining calls                                        *)

\* what getter(func) / setter(func) store: func itself when it is a classmethod
\* or a staticmethod, else func wrapped by classmethod
Stored(func) == IF func.wrap = "plain" THEN Fn("classmethod", func.f) ELSE func

\* C15: getter(f) and setter(f) return the descriptor they were called on;
\* setter(f) replaces the setter and keeps the getter, getter(f) replaces the
\* getter and keeps the setter.
C15_ChainKeepsOtherAccessor ==
    klast.op # "none" =>
        /\ klast.result = klast.self
        /\ klast.op = "setter" =>
              /\ descs[klast.self].fget = klast.pre.fget
              /\ descs[klast.self].fset = Stored(klast.func)
        /\ klast.op = "getter" =>
              /\ descs[klast.self].fset = klast.pre.fset
              /\ descs[klast.self].fget = Stored(klast.func)

\* the decorator idiom of the tests: classproperty(getx), then .setter(setx)
C15_Witness ==
    /\ klast.op = "setter" /\ klast.self = 1 /\ klast.result = 1
    /\ klast.pre = classproperty(Fn("plain", "getx"), NoneFn)
    /\ descs[1].fget = Fn("classmethod", "getx")
    /\ descs[1].fset = Fn("classmethod", "setx")

-----------------------------------------------------------------------------
(* The freeze of immutableobject                                           *)

\* an assignment to an attribute of the instance, in a step
C17_Step ==
    (Truthy(Initialized(attrs)) /\ ilast'.key # "-") =>
        /\ Truthy(Initialized(attrs'))
        /\ attrs'["_fail_quietly"] = attrs["_fail_quietly"]

\* C17: once the base constructor has set the initialized flag, no attribute
\* assignment on the instance, to the initialized flag and to _fail_quietly
\* included, makes it uninitialized again or changes _fail_quietly.
C17_FreezeIrreversible == [][C17_Step]_vars

\* foo._immutableobject__initialized = False was tried on a quiet instance and
\* foo._fail_quietly = False before or after it: both flags are as constructed
C17_Witness ==
    /\ made.kind = "Foo" /\ made.fq = 1
    /\ ilast.key = InitializedName /\ ilast.value = 0
    /\ Truthy(Initialized(attrs))
    /\ attrs["_fail_quietly"] = 1

-----------------------------------------------------------------------------
(* The unsynchronised check-then-create of _Singleton.__call__             *)

\* a thread's assignment to the registry, in a step
C16_Step ==
    \A t \in Threads :
        (pc[t] = "store" /\ pc'[t] = "ret") =>
            /\ instances'[cur[t].key] = tmp[t]
            /\ \A k \in DOMAIN instances \ {cur[t].key} :
                   k \in DOMAIN instances' /\ instances'[k] = instances[k]

\* C16: the check and the creation are not one atomic step, so two threads
\* can both find no entry and both build an instance; every assignment to the
\* registry overwrites the entry, so the registry holds the instance that was
\* written last.
C16_LastWriteWins == [][C16_Step]_vars

\* both threads built an instance of S, and the registry holds the one built
\* first because its thread stored last
C16_Witness ==
    /\ Len(heap["S"]) = 2
    /\ \A t \in Threads : pc[t] = "idle"
    /\ getmro("S") \in DOMAIN instances
    /\ instances[getmro("S")] = <<"S", 1>>

-----------------------------------------------------------------------------
(* A constructor that raises                                               *)

\* the state after a construction request failed
C18_NoEntryAfterFailure ==
    (AllIdle /\ ret.op = "call" /\ ret.err = "Exception") =>
        /\ EntryOf(ret.cls) = NoObject
        /\ ret.inst = NoObject

\* the steps of a failed request and of the request after it
C18_Step ==
    \A t \in Threads :
        /\ (pc[t] = "construct" /\ pc'[t] = "idle") =>
               /\ instances' = instances
               /\ ret'.err = "Exception"
        /\ (/\ pc[t] = "check" /\ pc'[t] # "check"
            /\ ret.op = "call" /\ ret.err = "Exception" /\ ret.cls = cur[t].cls) =>
               pc'[t] = "construct"
        /\ (pc[t] = "construct" /\ pc'[t] = "store") =>
               /\ tmp'[t] = <<cur[t].cls, Len(heap'[cur[t].cls])>>
               /\ heap'[cur[t].cls][tmp'[t][2]].x = cur[t].arg

\* C18: when the constructor raises on the first construction of S, the
\* exception reaches the caller and no registry entry is added; the next
\* construction request for S finds no entry and runs the constructor again,
\* with that request's arguments.
C18_FailedConstructionNotCached == []C18_NoEntryAfterFailure /\ [][C18_Step]_vars

\* S(13) raised; the next request S(5) found no entry and has just built the
\* first instance of S from 5
C18_Witness ==
    \E t \in Threads :
        /\ pc[t] = "store" /\ cur[t].cls = "S" /\ cur[t].arg = 5
        /\ ret.op = "call" /\ ret.cls = "S" /\ ret.err = "Exception"
        /\ CtorRaises(ret.arg)
        /\ tmp[t] = <<"S", 1>> /\ heap["S"][1].x = 5

====
